---- MODULE Spec2Model ----
(***************************************************************************)
(* Model of nps-xml-merger.py: merge_xml_files, find_correct_parent and    *)
(* main.  An XML tree is a sequence of nodes; a node's position in the     *)
(* sequence is its identity, node 1 is the root, and `kids` is the ordered *)
(* list of child positions.  A node's attributes are `name` (NoName when   *)
(* the attribute is absent) and `ver` (every other attribute).             *)
(***************************************************************************)
EXTENDS Integers, Sequences, FiniteSets, TLC

\* ---------------------------------------------------------------- bounds
MaxFiles == 3

\* ----------------------------------------------------------- tree model
None == 0
NoName == "<absent>"
NoText == "<absent>"
WS == " "

N(tag, name, ver, text, kids) ==
    [tag |-> tag, name |-> name, ver |-> ver, text |-> text, kids |-> kids]

Root == 1

Min(S) == CHOOSE x \in S : \A y \in S : x <= y

RECURSIVE IterKids(_, _)
\* Element.iter() over the subtrees of the nodes ks, in document order
IterKids(t, ks) ==
    IF ks = <<>> THEN <<>>
    ELSE <<Head(ks)>> \o IterKids(t, t[Head(ks)].kids) \o IterKids(t, Tail(ks))

\* root.findall(".//*"): every descendant of the root, the root excluded
FindAllDesc(t) == IterKids(t, t[Root].kids)

\* root.findall(".//TAG"): descendants with that tag, the root excluded
FindAllTag(t, tag) == SelectSeq(FindAllDesc(t), LAMBDA n : t[n].tag = tag)

\* first direct child of n with the given tag, or None
FirstKid(t, n, tag) ==
    LET ks == t[n].kids
        I  == {i \in DOMAIN ks : t[ks[i]].tag = tag}
    IN  IF I = {} THEN None ELSE ks[Min(I)]

HasKid(t, n, tag) == \E i \in DOMAIN t[n].kids : t[t[n].kids[i]].tag = tag

\* element.get('name', '')
GetName(node) == IF node.name = NoName THEN "" ELSE node.name

\* any(child.tag == "Properties" for child in elem)
has_properties(t, n) == HasKid(t, n, "Properties")

get_element_id(node) == node.tag \o ":" \o GetName(node)

RECURSIVE find_path_from(_, _, _)
find_path_from(t, current, path) ==
    IF path = <<>> THEN current
    ELSE LET c == FirstKid(t, current, Head(path))
         IN  IF c = None THEN None ELSE find_path_from(t, c, Tail(path))

find_path(t, path) == find_path_from(t, Root, path)

\* ---------------------------------------------------------- input files
NpsBase == <<
    N("Root", NoName, 0, WS, <<2>>),
    N("Children", NoName, 0, WS, <<3>>),
    N("Microsoft_Internet_Authentication_Service", "M", 1, WS, <<4, 5>>),
    N("Properties", NoName, 0, NoText, <<>>),
    N("Children", NoName, 0, WS, <<6, 15>>),
    N("Protocols", NoName, 0, WS, <<7>>),
    N("Children", NoName, 0, WS, <<8>>),
    N("Microsoft_Radius_Protocol", NoName, 0, WS, <<9>>),
    N("Children", NoName, 0, WS, <<10>>),
    N("Clients", NoName, 0, WS, <<11>>),
    N("Children", NoName, 0, WS, <<12>>),
    N("Client", "A", 1, WS, <<13>>),
    N("Properties", NoName, 0, WS, <<14>>),
    N("IP_Address", NoName, 0, "t1", <<>>),
    N("RadiusProfiles", NoName, 0, WS, <<16>>),
    N("Children", NoName, 0, WS, <<17>>),
    N("Pol", "A", 1, WS, <<18>>),
    N("Properties", NoName, 0, NoText, <<>>) >>

FlatBase == <<
    N("Root", NoName, 0, WS, <<2>>),
    N("Children", NoName, 0, WS, <<3, 5>>),
    N("Pol", "A", 1, WS, <<4>>),
    N("Properties", NoName, 0, NoText, <<>>),
    N("Pol", "", 1, WS, <<6>>),
    N("Properties", NoName, 0, NoText, <<>>) >>

BareBase == <<
    N("Root", NoName, 0, NoText, <<2>>),
    N("Item", "A", 1, NoText, <<3>>),
    N("Properties", NoName, 0, NoText, <<>>) >>

RootEligible == <<
    N("RadiusProfiles", "B", 1, WS, <<2, 3>>),
    N("Properties", NoName, 0, NoText, <<>>),
    N("Pol", "B", 1, WS, <<4>>),
    N("Properties", NoName, 0, NoText, <<>>) >>

ClientSrc == <<
    N("Root", NoName, 0, WS, <<2, 5>>),
    N("Client", "B", 2, WS, <<3>>),
    N("Properties", NoName, 0, WS, <<4>>),
    N("IP_Address", NoName, 0, "t1", <<>>),
    N("Client", "A", 2, WS, <<6>>),
    N("Properties", NoName, 0, WS, <<7>>),
    N("IP_Address", NoName, 0, "t2", <<>>) >>

NestedSrc == <<
    N("Root", NoName, 0, WS, <<2>>),
    N("Grp", NoName, 0, WS, <<3>>),
    N("Pol", "C", 2, WS, <<4, 5>>),
    N("Properties", NoName, 0, NoText, <<>>),
    N("Sub", "D", 1, WS, <<6>>),
    N("Properties", NoName, 0, WS, <<7>>),
    N("Attr", NoName, 3, "t1", <<>>) >>

QuoteSrc == <<
    N("Root", NoName, 0, WS, <<2, 4>>),
    N("Item", "B", 1, "t1", <<3>>),
    N("Properties", NoName, 0, NoText, <<>>),
    N("Grp", "O'B", 0, WS, <<5>>),
    N("Item", "D", 1, WS, <<6>>),
    N("Properties", NoName, 0, NoText, <<>>) >>

KnownSrc == <<
    N("Root", NoName, 0, WS, <<2, 4, 7>>),
    N("RadiusProfiles", "B", 2, NoText, <<3>>),
    N("Properties", NoName, 0, NoText, <<>>),
    N("RadiusProfiles", "C", 1, WS, <<5>>),
    N("Properties", NoName, 0, WS, <<6>>),
    N("IP_Address", NoName, 0, "t1", <<>>),
    N("Protocols", NoName, 0, WS, <<8>>),
    N("RadiusProfiles", "D", 1, WS, <<9>>),
    N("Properties", NoName, 0, NoText, <<>>) >>

ConflictSrc == <<
    N("Root", NoName, 0, WS, <<2>>),
    N("Children", NoName, 0, WS, <<3, 5, 7>>),
    N("Pol", "A", 2, WS, <<4>>),
    N("Properties", NoName, 0, NoText, <<>>),
    N("Pol", "B", 2, WS, <<6>>),
    N("Properties", NoName, 0, NoText, <<>>),
    N("Pol", NoName, 2, WS, <<8>>),
    N("Properties", NoName, 0, NoText, <<>>) >>

\* the paths that can be given on the command line
TreeFiles == {"NpsBase", "FlatBase", "BareBase", "RootEligible", "ClientSrc",
              "NestedSrc", "QuoteSrc", "KnownSrc", "ConflictSrc"}
Paths == TreeFiles \cup {"missing", "unreadable", "malformed"}

TreeOf(f) ==
    CASE f = "NpsBase" -> NpsBase
      [] f = "FlatBase" -> FlatBase
      [] f = "BareBase" -> BareBase
      [] f = "RootEligible" -> RootEligible
      [] f = "ClientSrc" -> ClientSrc
      [] f = "NestedSrc" -> NestedSrc
      [] f = "QuoteSrc" -> QuoteSrc
      [] f = "KnownSrc" -> KnownSrc
      [] f = "ConflictSrc" -> ConflictSrc
      [] OTHER -> <<>>

\* os.path.exists(file_path)
path_exists(f) == f # "missing"

\* ET.parse(file_path) returns a tree (otherwise it raises ParseError or OSError)
parse_xml_file(f) == f \in TreeFiles

\* ------------------------------------------------- find_correct_parent
client_path ==
    <<"Children", "Microsoft_Internet_Authentication_Service", "Children",
      "Protocols", "Children", "Microsoft_Radius_Protocol", "Children",
      "Clients", "Children">>

MIAS_Children == <<"Children", "Microsoft_Internet_Authentication_Service", "Children">>

known_order ==
    <<"RadiusProfiles", "NetworkPolicy", "Proxy_Policies", "Proxy_Profiles",
      "RADIUS_Server_Groups", "Vendors">>

known_containers(name) ==
    IF name = "Vendors"
    THEN MIAS_Children \o <<"Protocols", "Children", "Microsoft_Radius_Protocol",
                            "Children", "Vendors", "Children">>
    ELSE MIAS_Children \o <<name, "Children">>

IsKnown(tag) == \E i \in DOMAIN known_order : known_order[i] = tag

\* names of the input files that contain an apostrophe
QuotedNames == {"O'B"}

Returned(n, rule) == [raised |-> FALSE, node |-> n, rule |-> rule]
Raised == [raised |-> TRUE, node |-> None, rule |-> "raise"]

RECURSIVE KidsWithTag(_, _, _)
\* the children tagged `tag` of each node of ns, in order
KidsWithTag(t, ns, tag) ==
    IF ns = <<>> THEN <<>>
    ELSE SelectSeq(t[Head(ns)].kids, LAMBDA k : t[k].tag = tag)
            \o KidsWithTag(t, Tail(ns), tag)

\* properties = element.find("./Properties"); any(prop.tag == "IP_Address" ...)
has_ip(src, e) ==
    /\ has_properties(src, e)
    /\ HasKid(src, FirstKid(src, e, "Properties"), "IP_Address")

\* the RADIUS client rule; None when it does not return
RadiusClientRule(b, src, e) ==
    IF ~has_ip(src, e) THEN None
    ELSE LET clients_container == find_path(b, client_path)
             clients_containers == KidsWithTag(b, FindAllTag(b, "Clients"), "Children")
         IN  IF clients_container # None THEN clients_container
             ELSE IF clients_containers # <<>> THEN clients_containers[1]
             ELSE None

\* child == element or (child.tag == element.tag and child.get('name') == element_name)
ChildMatches(src, c, e) ==
    \/ c = e
    \/ /\ src[c].tag = src[e].tag
       /\ src[c].name # NoName
       /\ src[c].name = GetName(src[e])

\* the nodes of the source, the root excluded, that have a matching child
SourceParents(src, e) ==
    SelectSeq(FindAllDesc(src),
              LAMBDA p : \E i \in DOMAIN src[p].kids : ChildMatches(src, src[p].kids[i], e))

\* base_root.findall(f".//*[@name='{parent_name}']") filtered by tag, then
\* base_root.findall(f".//{parent_tag}"); the first hit, or None
BaseParentFor(b, parent) ==
    LET parent_name == GetName(parent)
        exact == SelectSeq(FindAllDesc(b),
                     LAMBDA n : b[n].name # NoName /\ b[n].name = parent_name
                                /\ b[n].tag = parent.tag)
        by_tag == FindAllTag(b, parent.tag)
    IN  IF exact # <<>> THEN exact[1]
        ELSE IF by_tag # <<>> THEN by_tag[1]
        ELSE None

RECURSIVE SourceParentRule(_, _, _)
\* the source-parent rule over the matching parents ps, in document order
SourceParentRule(b, src, ps) ==
    IF ps = <<>> THEN Returned(None, "none")
    ELSE IF GetName(src[Head(ps)]) \in QuotedNames THEN Raised
    ELSE LET n == BaseParentFor(b, src[Head(ps)])
         IN  IF n # None THEN Returned(n, "source_parent")
             ELSE SourceParentRule(b, src, Tail(ps))

\* variant: the path stops at the container element, its Children left out
DirectTagRule_container(b, tag) ==
    IF IsKnown(tag) THEN find_path(b, MIAS_Children \o <<tag>>) ELSE None

\* for container_name, path in known_containers.items(): if element_tag == container_name
DirectTagRule(b, tag) ==
    IF IsKnown(tag) THEN find_path(b, known_containers(tag)) ELSE None

\* the first known container that resolves and has a child with the tag
SiblingInKnownRule(b, tag) ==
    LET hits == SelectSeq(known_order,
                    LAMBDA c : /\ find_path(b, known_containers(c)) # None
                               /\ HasKid(b, find_path(b, known_containers(c)), tag))
    IN  IF hits = <<>> THEN None ELSE find_path(b, known_containers(hits[1]))

\* the first Children element that has a child with the tag
SiblingInChildrenRule(b, tag) ==
    LET hits == SelectSeq(FindAllTag(b, "Children"), LAMBDA c : HasKid(b, c, tag))
    IN  IF hits = <<>> THEN None ELSE hits[1]

\* children_containers[0]
GenericChildrenRule(b) ==
    LET children_containers == FindAllTag(b, "Children")
    IN  IF children_containers = <<>> THEN None ELSE children_containers[1]

\* variant: the last resort gives up and returns no parent
LastResort_None(b) == None

\* variant: the last resort returns the first child of the root, base_root[0]
LastResort_firstChild(b) == IF b[Root].kids # <<>> THEN b[Root].kids[1] ELSE Root

\* return base_root
LastResort(b) == Root

find_correct_parent(b, src, e) ==
    LET tag == src[e].tag
        sp  == SourceParentRule(b, src, SourceParents(src, e))
    IN  IF RadiusClientRule(b, src, e) # None
            THEN Returned(RadiusClientRule(b, src, e), "radius_client")
        ELSE IF sp.raised \/ sp.node # None THEN sp
        ELSE IF DirectTagRule(b, tag) # None
            THEN Returned(DirectTagRule(b, tag), "known_container")
        ELSE IF SiblingInKnownRule(b, tag) # None
            THEN Returned(SiblingInKnownRule(b, tag), "known_sibling")
        ELSE IF SiblingInChildrenRule(b, tag) # None
            THEN Returned(SiblingInChildrenRule(b, tag), "children_sibling")
        ELSE IF GenericChildrenRule(b) # None
            THEN Returned(GenericChildrenRule(b), "generic_children")
        ELSE Returned(LastResort(b), "root")

\* ---------------------------------------------------------------- clone
\* gc_elem: tag, attributes and text of a grandchild, no children
CloneGrandchild(g) == N(g.tag, g.name, g.ver, g.text, <<>>)

\* child_elem and its gc_elems; child_elem gets the position id
CloneChild(src, c, id) ==
    <<N(src[c].tag, src[c].name, src[c].ver, src[c].text,
        [j \in 1..Len(src[c].kids) |-> id + j])>>
    \o [j \in 1..Len(src[c].kids) |-> CloneGrandchild(src[src[c].kids[j]])]

RECURSIVE CloneKids(_, _, _)
\* the copies of the children ks, the first at position id
CloneKids(src, ks, id) ==
    IF ks = <<>> THEN [ids |-> <<>>, nodes |-> <<>>]
    ELSE LET first == CloneChild(src, Head(ks), id)
             rest  == CloneKids(src, Tail(ks), id + Len(first))
         IN  [ids |-> <<id>> \o rest.ids, nodes |-> first \o rest.nodes]

\* new_element = ET.Element(element.tag); new_element.attrib = element.attrib.copy()
NewElement(el, kids) == N(el.tag, el.name, el.ver, NoText, kids)

\* new_element and everything copied under it; new_element gets the position id
CloneElement(src, e, id) ==
    LET r == CloneKids(src, src[e].kids, id + 1)
    IN  <<NewElement(src[e], r.ids)>> \o r.nodes

\* variant: parent_in_base.insert(0, new_element)
AppendChild_first(kids, new) == <<new>> \o kids

\* parent_in_base.append(new_element)
AppendChild(kids, new) == Append(kids, new)

Attach(b, parent, src, e) ==
    LET new == Len(b) + 1
        all == b \o CloneElement(src, e, new)
    IN  [all EXCEPT ![parent].kids = AppendChild(@, new)]

\* ---------------------------------------------------------------- state
VARIABLES
    args,                     \* args.input_files, the paths on the command line
    pc,                       \* position of the run
    valid_files,              \* main: the paths that exist (input_files of the merge)
    base,                     \* base_tree, <<>> before it is parsed
    seen_elements,            \* dict: key -> element of the base
    file_idx,                 \* index of the source file in input_files[1:]
    merge_tree,               \* the parsed source file, <<>> outside a file
    elements_with_properties, \* the candidates of the source file
    pos,                      \* position of the loop over the candidates
    new_elements_count,
    output,                   \* the tree written to the output file, <<>> if none
    exit_code,                \* -1 while running
    log,                      \* history: the elements added, in order
    skipped,                  \* history: the duplicates skipped, <<file_idx, element>>
    warned,                   \* history: number of "Could not find appropriate parent"
    failed,                   \* history: the source files abandoned by the except branch
    snapshot                  \* history: base and seen_elements when the file was opened

vars == <<args, pc, valid_files, base, seen_elements, file_idx, merge_tree,
          elements_with_properties, pos, new_elements_count, output, exit_code,
          log, skipped, warned, failed, snapshot>>

RECURSIVE SeqsUpTo(_, _)
SeqsUpTo(S, n) ==
    IF n = 0 THEN {<<>>}
    ELSE LET shorter == SeqsUpTo(S, n - 1)
         IN  shorter \cup {Append(q, x) : q \in {r \in shorter : Len(r) = n - 1}, x \in S}

EmptyDict == [k \in {} |-> None]

Init ==
    /\ args \in SeqsUpTo(Paths, MaxFiles) \ {<<>>}
    /\ pc = "main"
    /\ valid_files = <<>>
    /\ base = <<>>
    /\ seen_elements = EmptyDict
    /\ file_idx = 0
    /\ merge_tree = <<>>
    /\ elements_with_properties = <<>>
    /\ pos = 0
    /\ new_elements_count = 0
    /\ output = <<>>
    /\ exit_code = -1
    /\ log = <<>>
    /\ skipped = {}
    /\ warned = 0
    /\ failed = {}
    /\ snapshot = [base |-> <<>>, seen |-> EmptyDict]

\* ----------------------------------------------------------------- main
\* variant: the validation loop also drops the files that do not parse
ValidFiles_parseable(paths) == SelectSeq(paths, parse_xml_file)

\* valid_files: the paths for which os.path.exists holds, in order
ValidFiles(paths) == SelectSeq(paths, path_exists)

Main ==
    /\ pc = "main"
    /\ valid_files' = ValidFiles(args)
    /\ IF valid_files' = <<>>
       THEN pc' = "done" /\ exit_code' = 1
       ELSE pc' = "parse_base" /\ UNCHANGED exit_code
    /\ UNCHANGED <<args, base, seen_elements, file_idx, merge_tree,
                   elements_with_properties, pos, new_elements_count, output,
                   log, skipped, warned, failed, snapshot>>

\* ------------------------------------------------------ merge_xml_files
\* variant: base_root.findall("*"), the direct children of the root only
BaseCatalogNodes_direct(t) == t[Root].kids

\* base_root.findall(".//*") of the catalogue loop
BaseCatalogNodes(t) == FindAllDesc(t)

\* seen_elements after the catalogue loop: a later element replaces an earlier one
CatalogBase(t) ==
    LET nodes == SelectSeq(BaseCatalogNodes(t), LAMBDA n : has_properties(t, n))
        keys  == {get_element_id(t[nodes[i]]) : i \in DOMAIN nodes}
        Last(k) == CHOOSE i \in DOMAIN nodes :
                      /\ get_element_id(t[nodes[i]]) = k
                      /\ \A j \in DOMAIN nodes :
                            get_element_id(t[nodes[j]]) = k => j <= i
    IN  [k \in keys |-> nodes[Last(k)]]

ParseBase ==
    /\ pc = "parse_base"
    /\ parse_xml_file(valid_files[1])
    /\ base' = TreeOf(valid_files[1])
    /\ seen_elements' = CatalogBase(base')
    /\ file_idx' = 1
    /\ pc' = "next_file"
    /\ UNCHANGED <<args, valid_files, merge_tree, elements_with_properties, pos,
                   new_elements_count, output, exit_code, log, skipped, warned,
                   failed, snapshot>>

\* the outer except branch: return False, and main returns 1
BaseFails ==
    /\ pc = "parse_base"
    /\ ~parse_xml_file(valid_files[1])
    /\ pc' = "done"
    /\ exit_code' = 1
    /\ UNCHANGED <<args, valid_files, base, seen_elements, file_idx, merge_tree,
                   elements_with_properties, pos, new_elements_count, output,
                   log, skipped, warned, failed, snapshot>>

\* file_path of enumerate(input_files[1:], 1)
SourcePath == valid_files[file_idx + 1]

MoreFiles == file_idx < Len(valid_files)

\* the elements of the merge file that have a Properties child
Candidates(t) == SelectSeq(FindAllDesc(t), LAMBDA n : has_properties(t, n))

MergeFile ==
    /\ pc = "next_file"
    /\ MoreFiles
    /\ parse_xml_file(SourcePath)
    /\ merge_tree' = TreeOf(SourcePath)
    /\ elements_with_properties' = Candidates(merge_tree')
    /\ pos' = 1
    /\ new_elements_count' = 0
    /\ snapshot' = [base |-> base, seen |-> seen_elements]
    /\ pc' = "elements"
    /\ UNCHANGED <<args, valid_files, base, seen_elements, file_idx, output,
                   exit_code, log, skipped, warned, failed>>

\* parse_xml_file raises inside the inner try: the file is skipped
SourceParseFails ==
    /\ pc = "next_file"
    /\ MoreFiles
    /\ ~parse_xml_file(SourcePath)
    /\ failed' = failed \cup {file_idx}
    /\ snapshot' = [base |-> base, seen |-> seen_elements]
    /\ file_idx' = file_idx + 1
    /\ UNCHANGED <<args, pc, valid_files, base, seen_elements, merge_tree,
                   elements_with_properties, pos, new_elements_count, output,
                   exit_code, log, skipped, warned>>

InLoop == pc = "elements" /\ pos <= Len(elements_with_properties)

element == elements_with_properties[pos]

\* if key in seen_elements
IsDuplicate(seen, key) == key \in DOMAIN seen

SkipDuplicate ==
    /\ InLoop
    /\ IsDuplicate(seen_elements, get_element_id(merge_tree[element]))
    /\ skipped' = skipped \cup {<<file_idx, element>>}
    /\ pos' = pos + 1
    /\ UNCHANGED <<args, pc, valid_files, base, seen_elements, file_idx, merge_tree,
                   elements_with_properties, new_elements_count, output, exit_code,
                   log, warned, failed, snapshot>>

AddElement ==
    /\ InLoop
    /\ ~IsDuplicate(seen_elements, get_element_id(merge_tree[element]))
    /\ LET r   == find_correct_parent(base, merge_tree, element)
           key == get_element_id(merge_tree[element])
           new == Len(base) + 1
       IN  /\ ~r.raised
           /\ IF r.node # None
              THEN /\ base' = Attach(base, r.node, merge_tree, element)
                   /\ seen_elements' = (key :> new) @@ seen_elements
                   /\ new_elements_count' = new_elements_count + 1
                   /\ log' = Append(log, [file |-> file_idx, elem |-> element,
                                          parent |-> r.node, new |-> new,
                                          rule |-> r.rule])
                   /\ UNCHANGED warned
              ELSE /\ warned' = warned + 1
                   /\ UNCHANGED <<base, seen_elements, new_elements_count, log>>
    /\ pos' = pos + 1
    /\ UNCHANGED <<args, pc, valid_files, file_idx, merge_tree,
                   elements_with_properties, output, exit_code, skipped, failed,
                   snapshot>>

\* findall raises SyntaxError inside find_correct_parent: the inner except branch
ProcessingRaises ==
    /\ InLoop
    /\ ~IsDuplicate(seen_elements, get_element_id(merge_tree[element]))
    /\ find_correct_parent(base, merge_tree, element).raised
    /\ failed' = failed \cup {file_idx}
    /\ file_idx' = file_idx + 1
    /\ merge_tree' = <<>>
    /\ elements_with_properties' = <<>>
    /\ pos' = 0
    /\ pc' = "next_file"
    /\ UNCHANGED <<args, valid_files, base, seen_elements, new_elements_count,
                   output, exit_code, log, skipped, warned, snapshot>>

\* the loop over the candidates is over: "Added n new elements"
FinishFile ==
    /\ pc = "elements"
    /\ pos > Len(elements_with_properties)
    /\ file_idx' = file_idx + 1
    /\ merge_tree' = <<>>
    /\ elements_with_properties' = <<>>
    /\ pos' = 0
    /\ pc' = "next_file"
    /\ UNCHANGED <<args, valid_files, base, seen_elements, new_elements_count,
                   output, exit_code, log, skipped, warned, failed, snapshot>>

\* ET.indent(base_tree): an element with children whose text is absent or only
\* whitespace gets whitespace text (WS stands for any whitespace-only text)
Indent(t) ==
    [n \in DOMAIN t |->
        IF t[n].kids # <<>> /\ t[n].text \in {NoText, WS}
        THEN [t[n] EXCEPT !.text = WS] ELSE t[n]]

WriteOutput ==
    /\ pc = "next_file"
    /\ ~MoreFiles
    /\ base' = Indent(base)
    /\ output' = base'
    /\ exit_code' = 0
    /\ pc' = "done"
    /\ UNCHANGED <<args, valid_files, seen_elements, file_idx, merge_tree,
                   elements_with_properties, pos, new_elements_count, log, skipped,
                   warned, failed, snapshot>>

\* open(output_file, 'wb') raises: "Error writing output file", return False
WriteFails ==
    /\ pc = "next_file"
    /\ ~MoreFiles
    /\ exit_code' = 1
    /\ pc' = "done"
    /\ UNCHANGED <<args, valid_files, base, seen_elements, file_idx, merge_tree,
                   elements_with_properties, pos, new_elements_count, output, log,
                   skipped, warned, failed, snapshot>>

Next ==
    \/ Main
    \/ ParseBase
    \/ BaseFails
    \/ MergeFile
    \/ SourceParseFails
    \/ SkipDuplicate
    \/ AddElement
    \/ ProcessingRaises
    \/ FinishFile
    \/ WriteOutput
    \/ WriteFails

Spec == Init /\ [][Next]_vars

\* ======================================================= claim formulas
Key(t, n) == get_element_id(t[n])
Attrs(node) == <<node.name, node.ver>>
Eligible(t) == {n \in DOMAIN t : has_properties(t, n)}
SourceOf(f) == TreeOf(valid_files[f + 1])
Added == Len(log') = Len(log) + 1
LastAdded == log'[Len(log')]
Reached == InLoop /\ ~(get_element_id(merge_tree[element]) \in DOMAIN seen_elements)
ToSet(q) == {q[i] : i \in DOMAIN q}
IsPrefix(a, b) == Len(a) <= Len(b) /\ \A i \in DOMAIN a : a[i] = b[i]

\* text with whitespace-only text read as no text
Norm(text) == IF text = WS THEN NoText ELSE text

RECURSIVE Nest(_, _)
\* the subtree of n as a nested value: tag, attributes, text, ordered children
Nest(t, n) ==
    <<t[n].tag, t[n].name, t[n].ver, Norm(t[n].text),
      [i \in 1..Len(t[n].kids) |-> Nest(t, t[n].kids[i])]>>

\* C1: an append never creates an eligible node (one with a Properties child)
\* whose key tag:name is already carried by an eligible node of the base, the
\* root included, so that the keys of the eligible nodes of the base stay unique.
C1_NoSecondKey ==
    [][base # <<>> =>
        \A n \in DOMAIN base' \ DOMAIN base : \A m \in Eligible(base) :
            has_properties(base', n) => Key(base', n) # Key(base, m)]_vars

\* the input files, in the order given to the merge, that carry key k on an
\* eligible node
FilesWithKey(k) ==
    {i \in DOMAIN valid_files :
        /\ parse_xml_file(valid_files[i])
        /\ \E n \in Eligible(TreeOf(valid_files[i])) : Key(TreeOf(valid_files[i]), n) = k}

\* C2: first occurrence wins: when a key is carried by eligible nodes of two or
\* more input files, every eligible node with that key in the output has the
\* attributes of a node with that key of the earliest such file.
C2_FirstOccurrenceWins ==
    (pc = "done" /\ exit_code = 0 /\ failed = {}) =>
        \A n \in Eligible(output) :
            LET F == FilesWithKey(Key(output, n))
            IN  Cardinality(F) >= 2 =>
                    \E m \in Eligible(TreeOf(valid_files[Min(F)])) :
                        /\ Key(TreeOf(valid_files[Min(F)]), m) = Key(output, n)
                        /\ Attrs(TreeOf(valid_files[Min(F)])[m]) = Attrs(output[n])

\* the candidates of source file f that the loop has handled
Handled(f) ==
    IF f < file_idx /\ f \notin failed THEN ToSet(Candidates(SourceOf(f)))
    ELSE IF f = file_idx /\ pc = "elements"
         THEN {elements_with_properties[j] : j \in 1..(pos - 1)}
    ELSE {}

\* C3: attachment completeness: every candidate that was reached and was not a
\* duplicate got a parent that was a node of the base tree before the append,
\* a copy with its tag and attributes is a descendant of the base root, and
\* the "Could not find appropriate parent" branch was never taken.
C3_AttachmentCompleteness ==
    /\ warned = 0
    /\ \A i \in DOMAIN log :
          /\ log[i].parent \in 1..(log[i].new - 1)
          /\ log[i].parent \in {Root} \cup ToSet(FindAllDesc(base))
          /\ log[i].new \in ToSet(FindAllDesc(base))
          /\ log[i].new \in ToSet(base[log[i].parent].kids)
          /\ base[log[i].new].tag = SourceOf(log[i].file)[log[i].elem].tag
          /\ Attrs(base[log[i].new]) = Attrs(SourceOf(log[i].file)[log[i].elem])
    /\ \A f \in 1..file_idx : \A e \in Handled(f) :
          \/ <<f, e>> \in skipped
          \/ \E i \in DOMAIN log : log[i].file = f /\ log[i].elem = e

\* C3 witness: a merge that attached at least two candidates has finished
C3_Witness == pc = "done" /\ exit_code = 0 /\ Len(log) >= 2

SameFileTwice == Len(args) = 2 /\ args[1] = args[2] /\ args[1] \in TreeFiles

\* C4: idempotence: merging a file with itself as the only source adds no
\* node, skips every candidate as a duplicate and leaves the base tree equal to
\* the parsed file (the output is that tree, indented).
C4_Idempotence ==
    SameFileTwice =>
        /\ log = <<>>
        /\ new_elements_count = 0
        /\ (base # <<>> /\ output = <<>>) => base = TreeOf(args[1])
        /\ (pc = "done" /\ exit_code = 0) => output = Indent(TreeOf(args[1]))
        /\ (pc = "done" /\ base # <<>>) =>
              skipped = {<<1, e>> : e \in ToSet(Candidates(TreeOf(args[1])))}

\* C4 witness: a file merged with itself, some candidate skipped, output written
C4_Witness == SameFileTwice /\ pc = "done" /\ exit_code = 0 /\ skipped # {}

\* C5: deep-clone fidelity: the subtree added to the base equals the candidate's
\* subtree of the source: tag, attributes, text and ordered children at every
\* depth (whitespace-only text counted as no text).
C5_DeepCloneFidelity ==
    [][Added => Nest(base', LastAdded.new) = Nest(merge_tree, LastAdded.elem)]_vars

\* C6: per-file failure isolation: after a source file that failed to parse or
\* raised during its processing, the base tree and the seen-set are what they
\* were before that file.
C6_FailureIsolation ==
    (pc = "next_file" /\ (file_idx - 1) \in failed) =>
        /\ base = snapshot.base
        /\ seen_elements = snapshot.seen

Aborted == exit_code = 1 /\ output = <<>> /\ log = <<>> /\ base = <<>>

\* C7 as claimed: whenever the first path on the command line is missing,
\* unreadable or malformed, the run aborts: nothing merged, no output, exit 1.
C7_FatalBase == (pc = "done" /\ ~parse_xml_file(args[1])) => Aborted

Existing == {i \in DOMAIN args : path_exists(args[i])}

\* C7 amended: the base is the first path that exists; when that file is
\* unreadable or malformed, or when no path exists, the run aborts: nothing
\* merged, no output, exit 1; otherwise the base tree starts as that file.
C7_FatalFirstExisting ==
    /\ (pc = "done" /\ Existing = {}) => Aborted
    /\ (pc = "done" /\ Existing # {} /\ ~parse_xml_file(args[Min(Existing)])) => Aborted
    /\ (base # <<>>) =>
          /\ parse_xml_file(args[Min(Existing)])
          /\ \A n \in DOMAIN TreeOf(args[Min(Existing)]) :
                /\ base[n].tag = TreeOf(args[Min(Existing)])[n].tag
                /\ Attrs(base[n]) = Attrs(TreeOf(args[Min(Existing)])[n])

\* C7 witness: the first existing path does not parse, a later path does, and
\* the run has ended
C7_Witness ==
    /\ pc = "done"
    /\ Len(valid_files) >= 2
    /\ ~parse_xml_file(valid_files[1])
    /\ parse_xml_file(valid_files[2])

\* C8: append-only frame: a step of the merge keeps tag, attributes and text of
\* every node of the base and keeps its children as a prefix of its new child
\* list; when the base changes, exactly one node gets one new last child, the
\* new nodes are that child and its descendants, and the source tree is not
\* changed while its candidates are handled.
C8_AppendOnly ==
    [][(base # <<>> /\ pc' # "done") =>
        /\ \A n \in DOMAIN base :
              /\ n \in DOMAIN base'
              /\ base'[n].tag = base[n].tag
              /\ Attrs(base'[n]) = Attrs(base[n])
              /\ base'[n].text = base[n].text
              /\ IsPrefix(base[n].kids, base'[n].kids)
        /\ base' # base =>
              /\ \E p \in DOMAIN base :
                    /\ base'[p].kids = Append(base[p].kids, Len(base) + 1)
                    /\ \A q \in DOMAIN base \ {p} : base'[q].kids = base[q].kids
              /\ DOMAIN base' \ DOMAIN base =
                    {Len(base) + 1} \cup
                        ToSet(IterKids(base', base'[Len(base) + 1].kids))
        /\ (pc = "elements" /\ pc' = "elements") =>
              merge_tree' = merge_tree /\ merge_tree = TreeOf(SourcePath)]_vars

\* C8 witness: two appends have been made and the loop is still running
C8_Witness == pc = "elements" /\ Len(log) >= 2

NoClients(b) == \A n \in DOMAIN b : b[n].tag # "Clients"

\* C9 as claimed: when the base has no Clients element, a reached candidate
\* whose Properties has an IP_Address child is attached under the base root
\* and counted as added.
C9_ClientFallback ==
    [][(Reached /\ has_ip(merge_tree, element) /\ NoClients(base)) =>
        /\ Added
        /\ LastAdded.parent = Root
        /\ new_elements_count' = new_elements_count + 1]_vars

\* no node of the source other than its root has a child that is the candidate
\* or has its tag and name while carrying a tag found below the base root or a
\* name with an apostrophe
SourceParentsQuiet(b, src, e) ==
    \A p \in ToSet(FindAllDesc(src)) :
        (\E i \in DOMAIN src[p].kids :
            \/ src[p].kids[i] = e
            \/ /\ src[src[p].kids[i]].tag = src[e].tag
               /\ src[src[p].kids[i]].name # NoName
               /\ src[src[p].kids[i]].name = GetName(src[e]))
        => /\ \A n \in ToSet(FindAllDesc(b)) : b[n].tag # src[p].tag
           /\ ~(GetName(src[p]) \in QuotedNames)

NoChildrenBelowRoot(b) == \A n \in ToSet(FindAllDesc(b)) : b[n].tag # "Children"

\* C9 amended: when no element tagged Children lies below the base root and the
\* source-parent rule has nothing to match, a reached candidate whose Properties
\* has an IP_Address child becomes the last child of the base root and is
\* counted as added.
C9_ClientFallbackToRoot ==
    [][(/\ Reached
        /\ has_ip(merge_tree, element)
        /\ NoChildrenBelowRoot(base)
        /\ SourceParentsQuiet(base, merge_tree, element)) =>
        /\ Added
        /\ LastAdded.parent = Root
        /\ base'[Root].kids = Append(base[Root].kids, Len(base) + 1)
        /\ new_elements_count' = new_elements_count + 1]_vars

\* C9 witness: a candidate with an IP_Address property was attached under the
\* root of a base without Children elements
C9_Witness ==
    \E i \in DOMAIN log :
        /\ log[i].parent = Root
        /\ log[i].new \in ToSet(base[Root].kids)
        /\ has_ip(SourceOf(log[i].file), log[i].elem)
        /\ NoChildrenBelowRoot(base)

KnownResolves(b, tag) == IsKnown(tag) /\ find_path(b, known_containers(tag)) # None

\* C10 as claimed: a reached candidate whose tag is in the known-container
\* table, with the table's path resolving in the base, is attached at the end
\* of that path whatever its Properties and its place in the source.
C10_KnownContainerFirst ==
    [][(Reached /\ KnownResolves(base, merge_tree[element].tag)) =>
        /\ Added
        /\ LastAdded.parent = find_path(base, known_containers(merge_tree[element].tag))]_vars

\* the base has a Clients element with a Children child, on the fixed path or
\* anywhere below the root
HasClientsContainer(b) ==
    \/ find_path(b, client_path) # None
    \/ \E n \in ToSet(FindAllDesc(b)) : b[n].tag = "Clients" /\ HasKid(b, n, "Children")

\* C10 amended: the known-container rule is the third rule: the candidate is
\* attached at the end of the table's path when the RADIUS-client rule does not
\* apply (no IP_Address property, or no Clients/Children in the base) and the
\* source-parent rule has nothing to match.
C10_KnownContainerThird ==
    [][(/\ Reached
        /\ KnownResolves(base, merge_tree[element].tag)
        /\ ~(has_ip(merge_tree, element) /\ HasClientsContainer(base))
        /\ SourceParentsQuiet(base, merge_tree, element)) =>
        /\ Added
        /\ LastAdded.parent = find_path(base, known_containers(merge_tree[element].tag))]_vars

\* C10 witness: a candidate with a table tag was attached at the end of the
\* table's path
C10_Witness ==
    \E i \in DOMAIN log :
        /\ IsKnown(base[log[i].new].tag)
        /\ log[i].parent = find_path(base, known_containers(base[log[i].new].tag))
====
